---- MODULE Spec2Model ----
(***************************************************************************)
(* Model of the Python dispatch layer of ruranges (ruranges/__init__.py):  *)
(* overlaps / nearest -> _dispatch_binary -> Rust kernel ->                *)
(* cast_kernel_outputs.                                                    *)
(*                                                                         *)
(* A numpy array is a record [dtype, vals]; None is the record NoneArr.    *)
(* A dtype is one of the strings "i8" .. "i64", "u8" .. "u64", "f64".      *)
(* Indices are kept 0-based as in the source; At(a, i) reads a[i].         *)
(* An operator that can raise returns the name of the exception as a      *)
(* string ("ValueError", "TypeError", ...) in place of its value.          *)
(*                                                                         *)
(* Integer values of the model stay inside -2^31 .. 2^31-1, so the 32- and *)
(* 64-bit dtypes never wrap in the model; the 8- and 16-bit dtypes wrap    *)
(* exactly as numpy's astype does (modulo 2^width).                        *)
(***************************************************************************)
EXTENDS Integers, Sequences, FiniteSets, TLC

VARIABLES pc, entry, call, castIn, nep50, out,
          suffix_table, return_signatures, ncalls, first, varied

vars == <<pc, entry, call, castIn, nep50, out,
          suffix_table, return_signatures, ncalls, first, varied>>

-----------------------------------------------------------------------------
(* numpy dtypes                                                            *)

SignedDtypes == <<"i8", "i16", "i32", "i64">>

UnsignedDtypes == <<"u8", "u16", "u32", "u64">>

Kind(dt) ==
    IF dt \in {"i8", "i16", "i32", "i64"} THEN "i"
    ELSE IF dt \in {"u8", "u16", "u32", "u64"} THEN "u"
    ELSE IF dt = "f64" THEN "f"
    ELSE "O"

Bits(dt) ==
    IF dt \in {"i8", "u8"} THEN 8
    ELSE IF dt \in {"i16", "u16"} THEN 16
    ELSE IF dt \in {"i32", "u32"} THEN 32
    ELSE 64

\* np.iinfo(dt).min <= v <= np.iinfo(dt).max
Fits(v, dt) ==
    IF Kind(dt) = "u"
    THEN v >= 0 /\ (Bits(dt) >= 32 \/ v < 2 ^ Bits(dt))
    ELSE Bits(dt) >= 32 \/ (v >= -(2 ^ (Bits(dt) - 1)) /\ v < 2 ^ (Bits(dt) - 1))

\* v < np.iinfo(dt).min
BelowMin(v, dt) ==
    IF Kind(dt) = "u" THEN v < 0
    ELSE Bits(dt) < 32 /\ v < -(2 ^ (Bits(dt) - 1))

\* v > np.iinfo(dt).max
AboveMax(v, dt) == Bits(dt) < 32 /\ v >= 2 ^ (Bits(dt) - (IF Kind(dt) = "u" THEN 0 ELSE 1))

\* C-style integer conversion of one element (ndarray.astype, unsafe casting)
Wrap(v, dt) ==
    IF Bits(dt) >= 32 THEN v
    ELSE IF Kind(dt) = "u" THEN v % (2 ^ Bits(dt))
    ELSE ((v + 2 ^ (Bits(dt) - 1)) % (2 ^ Bits(dt))) - 2 ^ (Bits(dt) - 1)

NoneArr == [dtype |-> "none", vals |-> <<>>]

IsNone(a) == a.dtype = "none"

Arr(dt, vs) == [dtype |-> dt, vals |-> vs]

At(a, i) == a.vals[i + 1]

SeqMin(s) == CHOOSE x \in {s[i] : i \in DOMAIN s} : \A y \in {s[i] : i \in DOMAIN s} : x <= y

SeqMax(s) == CHOOSE x \in {s[i] : i \in DOMAIN s} : \A y \in {s[i] : i \in DOMAIN s} : x >= y

\* ndarray.astype(target, copy=False)
astype(a, dt) == Arr(dt, [i \in DOMAIN a.vals |-> Wrap(a.vals[i], dt)])

IsErr(x) == x \in {"ValueError", "TypeError", "OverflowError", "AttributeError"}

\* np.result_type on two integer dtypes (numpy promotion rules)
promote_types(a, b) ==
    IF a = b THEN a
    ELSE IF "f64" \in {a, b} THEN "f64"
    ELSE IF Kind(a) = Kind(b) THEN (IF Bits(a) >= Bits(b) THEN a ELSE b)
    ELSE LET s == IF Kind(a) = "i" THEN a ELSE b
             u == IF Kind(a) = "i" THEN b ELSE a
         IN  IF Bits(s) > Bits(u) THEN s
             ELSE IF Bits(u) = 8 THEN "i16"
             ELSE IF Bits(u) = 16 THEN "i32"
             ELSE IF Bits(u) = 32 THEN "i64"
             ELSE "f64"

RECURSIVE result_type(_)
result_type(dts) ==
    IF Len(dts) = 1 THEN dts[1]
    ELSE promote_types(result_type(SubSeq(dts, 1, Len(dts) - 1)), dts[Len(dts)])

FirstFit(cands, v1, v2) ==
    LET ok == {k \in DOMAIN cands : Fits(v1, cands[k]) /\ Fits(v2, cands[k])}
    IN  IF ok = {} THEN "ValueError"
        ELSE cands[CHOOSE k \in ok : \A j \in ok : k <= j]

minimal_integer_dtype(arr) ==
    IF Len(arr.vals) = 0 THEN arr.dtype
    ELSE LET lo == SeqMin(arr.vals)
             hi == SeqMax(arr.vals)
         IN  IF Kind(arr.dtype) = "u" THEN FirstFit(UnsignedDtypes, hi, hi)
             ELSE IF Kind(arr.dtype) = "i" THEN FirstFit(SignedDtypes, lo, hi)
             ELSE "TypeError"

common_integer_dtype(arrays) ==
    LET mins == [k \in DOMAIN arrays |-> minimal_integer_dtype(arrays[k])]
        bad == {k \in DOMAIN mins : IsErr(mins[k])}
    IN  IF bad # {} THEN mins[CHOOSE k \in bad : \A j \in bad : k <= j]
        ELSE LET common == result_type(mins)
             IN  IF Kind(common) \notin {"i", "u"} THEN "TypeError" ELSE common

-----------------------------------------------------------------------------
(* validation helpers                                                      *)

\* numpy scalar (of dtype dt, value v) plus the Python int d.  With NEP 50
\* promotion (numpy >= 2) the result keeps dtype dt and wraps; with the legacy
\* promotion (numpy < 2) the Python int makes the result an int64.
ScalarPlusInt(dt, v, d) == IF nep50 THEN Wrap(v + d, dt) ELSE v + d

check_min_max_with_slack(starts, ends, slack, old_dtype) ==
    IF Len(starts.vals) = 0 THEN "ValueError"
    ELSE IF nep50 /\ ~Fits(slack, starts.dtype) THEN "OverflowError"
    ELSE IF Len(ends.vals) = 0 THEN "ValueError"
    ELSE IF nep50 /\ ~Fits(slack, ends.dtype) THEN "OverflowError"
    ELSE LET adjusted_min == ScalarPlusInt(starts.dtype, SeqMin(starts.vals), -slack)
             adjusted_max == ScalarPlusInt(ends.dtype, SeqMax(ends.vals), slack)
         IN  IF Kind(old_dtype) \notin {"i", "f"} THEN "TypeError"
             ELSE IF Kind(old_dtype) = "i" /\ BelowMin(adjusted_min, old_dtype) THEN "ValueError"
             ELSE IF Kind(old_dtype) = "i" /\ AboveMax(adjusted_max, old_dtype) THEN "ValueError"
             ELSE "ok"

\* The value of a call that can raise: err = "" when it returned val.
Ok(v) == [err |-> "", val |-> v]

Raise(e) == [err |-> e, val |-> <<>>]

\* check_array_lengths without the comparison of len(ends) with len(starts)
check_array_lengths_no_ends(starts, ends, groups) ==
    LET n == Len(starts.vals)
    IN  IF ~IsNone(groups) /\ Len(groups.vals) # n THEN Raise("ValueError")
        ELSE Ok(n)

check_array_lengths(starts, ends, groups) ==
    LET n == Len(starts.vals)
    IN  IF Len(ends.vals) # n THEN Raise("ValueError")
        ELSE IF ~IsNone(groups) /\ Len(groups.vals) # n THEN Raise("ValueError")
        ELSE Ok(n)

validate_groups(length, groups) ==
    IF IsNone(groups) THEN Ok(Arr("i32", [i \in 1..length |-> 0]))
    ELSE IF Len(groups.vals) # length THEN Raise("ValueError")
    ELSE Ok(groups)

-----------------------------------------------------------------------------
(* kernel lookup                                                           *)

SUFFIX_TABLE ==
    (<<"u8", "i8">> :> <<"u8_i16", "u8", "i16">>) @@
    (<<"u8", "i16">> :> <<"u8_i16", "u8", "i16">>) @@
    (<<"u8", "i32">> :> <<"u8_i32", "u8", "i32">>) @@
    (<<"u8", "i64">> :> <<"u8_i64", "u8", "i64">>) @@
    (<<"u16", "i8">> :> <<"u16_i16", "u16", "i16">>) @@
    (<<"u16", "i16">> :> <<"u16_i16", "u16", "i16">>) @@
    (<<"u16", "i32">> :> <<"u16_i32", "u16", "i32">>) @@
    (<<"u16", "i64">> :> <<"u16_i64", "u16", "i64">>) @@
    (<<"u32", "i8">> :> <<"u32_i16", "u32", "i16">>) @@
    (<<"u32", "i16">> :> <<"u32_i16", "u32", "i16">>) @@
    (<<"u32", "i32">> :> <<"u32_i32", "u32", "i32">>) @@
    (<<"u32", "i64">> :> <<"u32_i64", "u32", "i64">>) @@
    (<<"u64", "i8">> :> <<"u64_i64", "u64", "i64">>) @@
    (<<"u64", "i16">> :> <<"u64_i64", "u64", "i64">>) @@
    (<<"u64", "i32">> :> <<"u64_i64", "u64", "i64">>) @@
    (<<"u64", "i64">> :> <<"u64_i64", "u64", "i64">>)

RETURN_SIGNATURES ==
    ("chromsweep_numpy" :> <<"grp", "grp">>) @@
    ("nearest_numpy" :> <<"grp", "grp", "pos">>) @@
    ("strand_numpy" :> <<"grp", "grp", "strand">>)

\* The two tables are module-level dictionaries: SUFFIX_TABLE and
\* RETURN_SIGNATURES are their values at import, suffix_table and
\* return_signatures the dictionaries a call looks up.
\* <<name of the Rust wrapper, target group dtype, target position dtype>>
resolve_rust_fn(prefix, grp_dt, pos_dt) ==
    IF <<grp_dt, pos_dt>> \notin DOMAIN suffix_table THEN Raise("TypeError")
    ELSE LET e == suffix_table[<<grp_dt, pos_dt>>]
         IN  Ok(<<prefix \o "_" \o e[1], e[2], e[3]>>)

-----------------------------------------------------------------------------
(* The Rust kernels.  Their code is not part of the Python layer; they are *)
(* modelled from the specification of the sweep engine, with the default   *)
(* options of the public functions (multiple = "all", contained = False,   *)
(* k = 1, include_overlaps = True, direction = "any").                     *)

\* dtype of the index arrays the kernels return
KernelIdxDtype == "u32"

Max2(a, b) == IF a >= b THEN a ELSE b

Min2(a, b) == IF a <= b THEN a ELSE b

\* [s1, e1) padded by slack overlaps [s2, e2)
OverlapPred(s1, e1, s2, e2, slack) == Max2(s1 - slack, s2) < Min2(e1 + slack, e2)

Gap(s1, e1, s2, e2) ==
    IF s2 >= e1 THEN s2 - e1
    ELSE IF s1 >= e2 THEN s1 - e2
    ELSE 0

Distance(s1, e1, s2, e2, slack) ==
    IF OverlapPred(s1, e1, s2, e2, slack) THEN 0 ELSE Gap(s1, e1, s2, e2)

\* the rows of a set of rows <<i, j, ...>>, in ascending (i, j)
SortRows(P) ==
    LET before(q, p) == q[1] < p[1] \/ (q[1] = p[1] /\ q[2] < p[2])
    IN  [r \in 1..Cardinality(P) |->
            CHOOSE p \in P : Cardinality({q \in P : before(q, p)}) = r - 1]

\* all pairs <<i, j>> of one group whose intervals overlap
OverlapRows(g1, s1, e1, g2, s2, e2, slack) ==
    {p \in (0..(Len(s1.vals) - 1)) \X (0..(Len(s2.vals) - 1)) :
        /\ At(g1, p[1]) = At(g2, p[2])
        /\ OverlapPred(At(s1, p[1]), At(e1, p[1]), At(s2, p[2]), At(e2, p[2]), slack)}

chromsweep_numpy(g1, s1, e1, g2, s2, e2, slack) ==
    LET rows == SortRows(OverlapRows(g1, s1, e1, g2, s2, e2, slack))
    IN  <<Arr(KernelIdxDtype, [r \in 1..Len(rows) |-> rows[r][1]]),
          Arr(KernelIdxDtype, [r \in 1..Len(rows) |-> rows[r][2]])>>

\* rows of batch B in the group of row i of batch A
Candidates(i, g1, g2) == {j \in 0..(Len(g2.vals) - 1) : At(g1, i) = At(g2, j)}

\* the nearest row of batch B for row i of batch A: smallest distance, then
\* smallest start, then smallest original index
NearestRow(i, g1, s1, e1, g2, s2, e2, slack) ==
    LET cand == Candidates(i, g1, g2)
        d(j) == Distance(At(s1, i), At(e1, i), At(s2, j), At(e2, j), slack)
        before(j, h) ==
            \/ d(j) < d(h)
            \/ d(j) = d(h) /\ At(s2, j) < At(s2, h)
            \/ d(j) = d(h) /\ At(s2, j) = At(s2, h) /\ j <= h
        best == CHOOSE j \in cand : \A h \in cand : before(j, h)
    IN  <<i, best, d(best)>>

\* one row <<i, j, distance>> for every row i of batch A whose group has rows in
\* batch B
NearestRows(g1, s1, e1, g2, s2, e2, slack) ==
    {NearestRow(i, g1, s1, e1, g2, s2, e2, slack) :
        i \in {h \in 0..(Len(s1.vals) - 1) : Candidates(h, g1, g2) # {}}}

nearest_numpy(g1, s1, e1, g2, s2, e2, slack) ==
    LET rows == SortRows(NearestRows(g1, s1, e1, g2, s2, e2, slack))
    IN  <<Arr(KernelIdxDtype, [r \in 1..Len(rows) |-> rows[r][1]]),
          Arr(KernelIdxDtype, [r \in 1..Len(rows) |-> rows[r][2]]),
          Arr(s1.dtype, [r \in 1..Len(rows) |-> rows[r][3]])>>

rust_fn(prefix, g1, s1, e1, g2, s2, e2, slack) ==
    IF prefix = "nearest_numpy" THEN nearest_numpy(g1, s1, e1, g2, s2, e2, slack)
    ELSE chromsweep_numpy(g1, s1, e1, g2, s2, e2, slack)

-----------------------------------------------------------------------------
(* casting the kernel's arrays back                                        *)

\* _restore: cast one array according to its semantic role
restore(role, arr, grp_t, pos_t, grp_orig, pos_orig) ==
    IF role = "grp" /\ arr.dtype = grp_t THEN astype(arr, grp_orig)
    ELSE IF role = "pos" /\ arr.dtype = pos_t THEN astype(arr, pos_orig)
    ELSE arr

\* cast_kernel_outputs without the arity guard: zip stops at the shorter side
cast_kernel_outputs_no_guard(prefix, raw_out, roles, grp_t, pos_t, grp_orig, pos_orig) ==
    LET n == IF Len(raw_out.items) < Len(roles) THEN Len(raw_out.items) ELSE Len(roles)
    IN  Ok([k \in 1..n |->
               restore(roles[k], raw_out.items[k], grp_t, pos_t, grp_orig, pos_orig)])

\* raw_out is [tuple |-> whether the kernel returned a tuple, items |-> the arrays
\* (one array when it returned a bare ndarray)].  The result is Raise(e), or
\* Ok of the sequence of arrays returned.
cast_kernel_outputs(prefix, raw_out, roles, grp_t, pos_t, grp_orig, pos_orig) ==
    IF Len(roles) = 1
    THEN IF raw_out.tuple THEN Raise("TypeError")
         ELSE Ok(<<restore(roles[1], raw_out.items[1], grp_t, pos_t, grp_orig, pos_orig)>>)
    ELSE IF Len(raw_out.items) # Len(roles) THEN Raise("ValueError")
    ELSE Ok([k \in 1..Len(roles) |->
                restore(roles[k], raw_out.items[k], grp_t, pos_t, grp_orig, pos_orig)])

-----------------------------------------------------------------------------
(* _dispatch_binary                                                        *)

\* The outcome of one call: the exception raised ("" when it returned), whether
\* the kernel was invoked and with which dtypes and arrays, what the kernel
\* returned (raw) and what the call returned (ret).
Outcome(raised, kernel, grp_t, pos_t, kargs, raw, ret) ==
    [raised |-> raised, kernel |-> kernel, grp_t |-> grp_t, pos_t |-> pos_t,
     kargs |-> kargs, raw |-> raw, ret |-> ret]

Raised(e) == Outcome(e, FALSE, "", "", <<>>, <<>>, <<>>)

NoOutcome == Outcome("", FALSE, "", "", <<>>, <<>>, <<>>)

\* steps 3-5: resolve the kernel, cast the inputs, call it, cast the outputs
dispatch_call(prefix, groups, starts, ends, groups2, starts2, ends2, kslack, grp_tmp, pos_tmp, grp_orig, pos_orig) ==
    LET fn == resolve_rust_fn(prefix, grp_tmp, pos_tmp)
    IN  IF fn.err # "" THEN Raised(fn.err)
        ELSE IF IsNone(groups) \/ IsNone(groups2) THEN Raised("AttributeError")
        ELSE LET grp_t == fn.val[2]
                 pos_t == fn.val[3]
                 roles == return_signatures[prefix]
                 g1 == astype(groups, grp_t)
                 g2 == astype(groups2, grp_t)
                 s1 == astype(starts, pos_t)
                 e1 == astype(ends, pos_t)
                 s2 == astype(starts2, pos_t)
                 e2 == astype(ends2, pos_t)
                 raw == rust_fn(prefix, g1, s1, e1, g2, s2, e2, kslack)
                 res == cast_kernel_outputs(prefix, [tuple |-> TRUE, items |-> raw],
                                            roles, grp_t, pos_t, grp_orig, pos_orig)
             IN  Outcome(res.err, TRUE, grp_t, pos_t, <<g1, s1, e1, g2, s2, e2>>,
                         raw, res.val)

\* extra_pos and extra_kw carry the slack: extra_pos = <<slack>> when it is
\* passed positionally, kw_slack = <<slack>> when extra_kw has the key "slack".
dispatch_binary(prefix, groups, starts, ends, groups2, starts2, ends2, extra_pos, kw_slack) ==
    LET length == check_array_lengths(starts, ends, groups)
        length2 == check_array_lengths(starts2, ends2, groups2)
    IN  IF length.err # "" THEN Raised(length.err)
        ELSE IF length2.err # "" THEN Raised(length2.err)
        ELSE
        LET groups_validated == validate_groups(length.val, groups)
            groups2_validated == validate_groups(length2.val, groups2)
        IN  IF groups_validated.err # "" THEN Raised(groups_validated.err)
            ELSE IF groups2_validated.err # "" THEN Raised(groups2_validated.err)
            ELSE
            LET grp_orig == groups_validated.val.dtype
                pos_orig == starts.dtype
                grp_tmp == common_integer_dtype(
                               <<groups_validated.val, groups2_validated.val>>)
                pos_tmp0 == common_integer_dtype(<<starts, ends, starts2, ends2>>)
                slack == IF kw_slack = <<>> THEN 0 ELSE kw_slack[1]
                kslack == IF extra_pos # <<>> THEN extra_pos[1] ELSE slack
            IN  IF IsErr(grp_tmp) THEN Raised(grp_tmp)
                ELSE IF IsErr(pos_tmp0) THEN Raised(pos_tmp0)
                ELSE
                LET chk == IF slack # 0
                           THEN check_min_max_with_slack(starts, ends, slack, pos_tmp0)
                           ELSE "ok"
                    pos_tmp == IF chk = "ValueError" THEN pos_orig ELSE pos_tmp0
                IN  IF chk \in {"TypeError", "OverflowError"} THEN Raised(chk)
                    ELSE dispatch_call(prefix, groups, starts, ends, groups2, starts2,
                                       ends2, kslack, grp_tmp, pos_tmp, grp_orig, pos_orig)

overlaps(starts, ends, starts2, ends2, groups, groups2, slack) ==
    dispatch_binary("chromsweep_numpy", groups, starts, ends, groups2, starts2, ends2,
                    <<slack>>, <<>>)

nearest(starts, ends, starts2, ends2, groups, groups2, slack) ==
    dispatch_binary("nearest_numpy", groups, starts, ends, groups2, starts2, ends2,
                    <<slack>>, <<>>)

-----------------------------------------------------------------------------
(* Inputs of the calls                                                     *)

\* longest generated array
MaxLen == 2

\* length of the long batch: one row more than a uint8 index can number
LongLen == 257

\* most arrays a kernel is taken to return
MaxArity == 3

Slacks == {0, 1}

SeqsUpTo(S, n) == UNION {[1..k -> S] : k \in 0..n}

Batch(groups, starts, ends) == [groups |-> groups, starts |-> starts, ends |-> ends]

\* intervals and group ids of the generated batches
IV == {<<1, 5>>, <<3, 6>>}

GV == {1, 2}

\* equal-length batches over IV and GV, int32 coordinates, uint32 groups or None
ValueBatches ==
    {Batch(g, Arr("i32", [i \in DOMAIN ivs |-> ivs[i][1]]),
              Arr("i32", [i \in DOMAIN ivs |-> ivs[i][2]])) :
        <<ivs, g>> \in
            {<<w, h>> \in SeqsUpTo(IV, MaxLen) \X
                          ({NoneArr} \cup {Arr("u32", gs) : gs \in SeqsUpTo(GV, MaxLen)}) :
                IsNone(h) \/ Len(h.vals) = Len(w)}}

\* batches whose ends, or whose groups, have a length of their own
LenBatches ==
    {Batch(NoneArr, Arr("i32", [i \in 1..n |-> 1]), Arr("i32", [i \in 1..nE |-> 5])) :
        <<n, nE>> \in (0..MaxLen) \X (0..MaxLen)}
    \cup
    {Batch(Arr("u32", [i \in 1..nG |-> 1]),
           Arr("i32", [i \in 1..n |-> 1]), Arr("i32", [i \in 1..n |-> 5])) :
        <<n, nG>> \in (0..MaxLen) \X (0..MaxLen)}

\* the batches of the docstring examples of overlaps
DocBatches ==
    {Batch(NoneArr, Arr("i32", <<1, 10>>), Arr("i32", <<5, 15>>)),
     Batch(NoneArr, Arr("i32", <<3, 20>>), Arr("i32", <<6, 25>>)),
     Batch(Arr("u32", <<1, 2>>), Arr("i32", <<1, 1>>), Arr("i32", <<5, 5>>)),
     Batch(Arr("u32", <<1, 2>>), Arr("i32", <<3, 20>>), Arr("i32", <<6, 25>>))}

\* group ids of the dtypes GroupIdInt names
SignedGroupBatches ==
    {Batch(Arr(dt, <<1, 2>>), Arr("i32", <<1, 1>>), Arr("i32", <<5, 5>>)) :
        dt \in {"i8", "i16", "i32"}}

\* far-away rows of groups 0, 1, 2, ..., then as last row [1, 5) of group 1
LongBatch ==
    Batch(Arr("u8", [i \in 1..LongLen |-> IF i = LongLen THEN 1 ELSE (i - 1) % 256]),
          Arr("i16", [i \in 1..LongLen |-> IF i = LongLen THEN 1 ELSE 1000 + 10 * i]),
          Arr("i16", [i \in 1..LongLen |-> IF i = LongLen THEN 5 ELSE 1001 + 10 * i]))

\* batches at the limits of their dtypes
EdgeBatches ==
    {Batch(Arr("u8", <<0>>), Arr("i8", <<-128>>), Arr("i8", <<-100>>)),
     Batch(Arr("u8", <<0>>), Arr("i8", <<100>>), Arr("i8", <<127>>)),
     Batch(Arr("u8", <<0>>), Arr("i16", <<0>>), Arr("i16", <<32767>>)),
     Batch(Arr("u8", <<0>>), Arr("i32", <<100000>>), Arr("i32", <<100001>>)),
     Batch(Arr("u8", <<>>), Arr("i8", <<>>), Arr("i8", <<>>)),
     Batch(Arr("u16", <<300>>), Arr("i64", <<1>>), Arr("i64", <<5>>)),
     Batch(Arr("u32", <<1, 70000>>), Arr("i32", <<3, 20>>), Arr("i32", <<6, 25>>)),
     LongBatch}

Batches == ValueBatches \cup LenBatches \cup DocBatches \cup SignedGroupBatches \cup EdgeBatches

\* the second batch of a call is any batch but the long one
Batches2 == Batches \ {LongBatch}

NoBatch == Batch(NoneArr, Arr("i32", <<>>), Arr("i32", <<>>))

Call(prefix, a, b, slack) == [prefix |-> prefix, a |-> a, b |-> b, slack |-> slack]

NoCall == Call("", NoBatch, NoBatch, 0)

\* arrays a kernel may hand to cast_kernel_outputs
RawPool == {Arr("u32", <<>>), Arr("u32", <<300, 1>>), Arr("i16", <<200>>)}

RawOuts ==
    {[tuple |-> TRUE, items |-> it] : it \in SeqsUpTo(RawPool, MaxArity)}
    \cup {[tuple |-> FALSE, items |-> <<x>>] : x \in RawPool}

CastIn(prefix, raw_out, roles, grp_t, pos_t, grp_orig, pos_orig) ==
    [prefix |-> prefix, raw_out |-> raw_out, roles |-> roles, grp_t |-> grp_t,
     pos_t |-> pos_t, grp_orig |-> grp_orig, pos_orig |-> pos_orig]

NoCastIn == CastIn("", [tuple |-> TRUE, items |-> <<>>], <<>>, "", "", "", "")

CastIns ==
    {CastIn(p, raw, roles, "u32", "i16", go, po) :
        <<p, raw, roles, go, po>> \in
            {<<q, r, rl, g, o>> \in (DOMAIN RETURN_SIGNATURES) \X RawOuts \X
                    {<<"grp">>, <<"grp", "grp">>, <<"grp", "grp", "pos">>,
                     <<"grp", "grp", "strand">>} \X {"u8", "u32"} \X {"i8", "i16"} :
                rl = RETURN_SIGNATURES[q] \/ rl = <<"grp">>}}

\* the first call of a run and its outcome
FirstCall(e, c, o) == [set |-> TRUE, entry |-> e, call |-> c, out |-> o]

NoFirst == [set |-> FALSE, entry |-> "", call |-> NoCall, out |-> NoOutcome]

\* the calls of a run of several calls: some return, some raise
SeqBatches ==
    {Batch(Arr("u32", <<1, 2>>), Arr("i32", <<1, 1>>), Arr("i32", <<5, 5>>)),
     Batch(NoneArr, Arr("i32", <<1, 10>>), Arr("i32", <<5, 15>>)),
     Batch(Arr("u8", <<0>>), Arr("i8", <<-128>>), Arr("i8", <<-100>>)),
     Batch(Arr("u8", <<0>>), Arr("i16", <<0>>), Arr("i16", <<32767>>)),
     Batch(Arr("i32", <<1, 2>>), Arr("i32", <<1, 1>>), Arr("i32", <<5, 5>>))}

SeqBatches2 ==
    {Batch(Arr("u32", <<1, 2>>), Arr("i32", <<3, 20>>), Arr("i32", <<6, 25>>)),
     Batch(NoneArr, Arr("i32", <<3, 20>>), Arr("i32", <<6, 25>>)),
     Batch(Arr("u8", <<0>>), Arr("i8", <<100>>), Arr("i8", <<127>>))}

SeqCalls == {Call("", a, b, s) : <<a, b, s>> \in SeqBatches \X SeqBatches2 \X Slacks}

\* the number of calls of a run
MaxCalls == 3

-----------------------------------------------------------------------------
(* What a call leaves behind in the caller's arrays.                       *)

\* a.astype(t, copy=False) is the array a itself when a has dtype t already:
\* the kernel is then handed the caller's own buffer
shares_buffer(a, t) == a.dtype = t

\* the kernel reads its six input arrays and writes none of them
kernel_inputs_after(kargs) == kargs

array_after_cast_in_place(a, t, k) == k

\* the caller's array a after the call, k being the array the kernel was given
array_after(a, t, k) == IF shares_buffer(a, t) THEN k ELSE a

\* the caller's arrays after a call with outcome o
CallAfter(c, o) ==
    IF ~o.kernel THEN c
    ELSE LET k == kernel_inputs_after(o.kargs)
         IN  Call(c.prefix,
                  Batch(array_after(c.a.groups, o.grp_t, k[1]),
                        array_after(c.a.starts, o.pos_t, k[2]),
                        array_after(c.a.ends, o.pos_t, k[3])),
                  Batch(array_after(c.b.groups, o.grp_t, k[4]),
                        array_after(c.b.starts, o.pos_t, k[5]),
                        array_after(c.b.ends, o.pos_t, k[6])),
                  c.slack)

-----------------------------------------------------------------------------
(* The state machine: a pending call (pc = "ready"), then the call runs to *)
(* its return or its exception (pc = "done").  In a run of several calls   *)
(* the caller then makes its next call.                                    *)

\* the module after import, no call made yet
Imported ==
    /\ suffix_table = SUFFIX_TABLE
    /\ return_signatures = RETURN_SIGNATURES
    /\ ncalls = 0
    /\ first = NoFirst
    /\ varied = FALSE

Init ==
    /\ pc = "ready"
    /\ nep50 \in BOOLEAN
    /\ out = NoOutcome
    /\ Imported
    /\ \/ /\ entry \in {"overlaps", "nearest"}
          /\ call \in {Call("", a, b, s) : <<a, b, s>> \in Batches \X Batches2 \X Slacks}
          /\ castIn = NoCastIn
       \/ /\ entry = "_dispatch_binary"
          /\ call \in {Call(p, a, b, s) : <<p, a, b, s>> \in
                        {"chromsweep_numpy", "nearest_numpy"} \X Batches \X Batches2 \X (Slacks \ {0})}
          /\ castIn = NoCastIn
       \/ /\ entry = "cast_kernel_outputs"
          /\ call = NoCall
          /\ castIn \in CastIns

Overlaps ==
    /\ pc = "ready"
    /\ entry = "overlaps"
    /\ out' = overlaps(call.a.starts, call.a.ends, call.b.starts, call.b.ends,
                       call.a.groups, call.b.groups, call.slack)
    /\ pc' = "done"
    /\ call' = CallAfter(call, out')
    /\ ncalls' = ncalls + 1
    /\ first' = IF first.set THEN first ELSE FirstCall(entry, call, out')
    /\ varied' = (varied \/ (first.set /\ (first.entry # entry \/ first.call # call)))
    /\ UNCHANGED <<entry, castIn, nep50, suffix_table, return_signatures>>

Nearest ==
    /\ pc = "ready"
    /\ entry = "nearest"
    /\ out' = nearest(call.a.starts, call.a.ends, call.b.starts, call.b.ends,
                      call.a.groups, call.b.groups, call.slack)
    /\ pc' = "done"
    /\ call' = CallAfter(call, out')
    /\ ncalls' = ncalls + 1
    /\ first' = IF first.set THEN first ELSE FirstCall(entry, call, out')
    /\ varied' = (varied \/ (first.set /\ (first.entry # entry \/ first.call # call)))
    /\ UNCHANGED <<entry, castIn, nep50, suffix_table, return_signatures>>

\* _dispatch_binary called with a non-zero slack as a keyword argument
DispatchBinary ==
    /\ pc = "ready"
    /\ entry = "_dispatch_binary"
    /\ out' = dispatch_binary(call.prefix, call.a.groups, call.a.starts, call.a.ends,
                              call.b.groups, call.b.starts, call.b.ends,
                              <<>>, <<call.slack>>)
    /\ pc' = "done"
    /\ call' = CallAfter(call, out')
    /\ UNCHANGED <<entry, castIn, nep50, suffix_table, return_signatures, ncalls, first, varied>>

CastKernelOutputs ==
    /\ pc = "ready"
    /\ entry = "cast_kernel_outputs"
    /\ LET res == cast_kernel_outputs(castIn.prefix, castIn.raw_out, castIn.roles,
                                      castIn.grp_t, castIn.pos_t, castIn.grp_orig,
                                      castIn.pos_orig)
       IN  out' = Outcome(res.err, FALSE, castIn.grp_t, castIn.pos_t, <<>>,
                          castIn.raw_out.items, res.val)
    /\ pc' = "done"
    /\ UNCHANGED <<entry, call, castIn, nep50, suffix_table, return_signatures, ncalls, first, varied>>

Next == Overlaps \/ Nearest \/ DispatchBinary \/ CastKernelOutputs

Spec == Init /\ [][Next]_vars

\* A run of several calls of overlaps and nearest, one after the other.
InitSeq ==
    /\ pc = "ready"
    /\ nep50 \in BOOLEAN
    /\ out = NoOutcome
    /\ Imported
    /\ entry \in {"overlaps", "nearest"}
    /\ call \in SeqCalls
    /\ castIn = NoCastIn

\* the caller makes its next call
NextCall ==
    /\ pc = "done"
    /\ ncalls < MaxCalls
    /\ entry' \in {"overlaps", "nearest"}
    /\ call' \in SeqCalls
    /\ pc' = "ready"
    /\ out' = NoOutcome
    /\ UNCHANGED <<castIn, nep50, suffix_table, return_signatures, ncalls, first, varied>>

NextSeq == Overlaps \/ Nearest \/ NextCall

SpecSeq == InitSeq /\ [][NextSeq]_vars

-----------------------------------------------------------------------------
(* Properties                                                              *)

Done == pc = "done"

Public == entry \in {"overlaps", "nearest"}

Dispatched == entry \in {"overlaps", "nearest", "_dispatch_binary"}

Returned == Done /\ out.raised = ""

LenOf(a) == Len(a.vals)

InRange(i, a) == 0 <= i /\ i < LenOf(a)

\* C1: with both group arrays supplied, every pair overlaps or nearest returns
\* joins two rows of the same group id of the caller's arrays.
C1_PairsShareGroup ==
    (Returned /\ Public /\ ~IsNone(call.a.groups) /\ ~IsNone(call.b.groups)) =>
        \A r \in 1..LenOf(out.ret[1]) :
            LET i == out.ret[1].vals[r]
                j == out.ret[2].vals[r]
            IN  /\ InRange(i, call.a.groups)
                /\ InRange(j, call.b.groups)
                /\ At(call.a.groups, i) = At(call.b.groups, j)

DocExample ==
    /\ call.a = Batch(NoneArr, Arr("i32", <<1, 10>>), Arr("i32", <<5, 15>>))
    /\ call.b = Batch(NoneArr, Arr("i32", <<3, 20>>), Arr("i32", <<6, 25>>))
    /\ call.slack = 0

\* C2: overlaps without groups and groups2 completes, reaches the kernel with all
\* rows in one group, and returns ([0], [0]) on the docstring example.
C2_NoGroupsRuns ==
    (Done /\ entry = "overlaps" /\ IsNone(call.a.groups) /\ IsNone(call.b.groups)
          /\ LenOf(call.a.ends) = LenOf(call.a.starts)
          /\ LenOf(call.b.ends) = LenOf(call.b.starts)) =>
        /\ out.raised = ""
        /\ out.kernel
        /\ \A x \in {out.kargs[1].vals[i] : i \in DOMAIN out.kargs[1].vals}
                     \cup {out.kargs[4].vals[i] : i \in DOMAIN out.kargs[4].vals} :
               \A y \in {out.kargs[1].vals[i] : i \in DOMAIN out.kargs[1].vals}
                         \cup {out.kargs[4].vals[i] : i \in DOMAIN out.kargs[4].vals} :
                   x = y
        /\ DocExample => (out.ret[1].vals = <<0>> /\ out.ret[2].vals = <<0>>)

\* C3: a call of overlaps or nearest with exactly one of groups / groups2 raises
\* ValueError before the kernel is invoked.
C3_OneGroupsValueError ==
    (Done /\ Public /\ IsNone(call.a.groups) # IsNone(call.b.groups)) =>
        (out.raised = "ValueError" /\ ~out.kernel)

SameLength4 ==
    /\ LenOf(call.a.ends) = LenOf(call.a.starts)
    /\ LenOf(call.b.starts) = LenOf(call.a.starts)
    /\ LenOf(call.b.ends) = LenOf(call.a.starts)

GroupsLengthOk ==
    /\ IsNone(call.a.groups) \/ LenOf(call.a.groups) = LenOf(call.a.starts)
    /\ IsNone(call.b.groups) \/ LenOf(call.b.groups) = LenOf(call.b.starts)

C5_SlackFitsKernelDtype ==
    (Done /\ Public /\ call.slack > 0 /\ out.kernel /\ LenOf(call.a.starts) > 0) =>
        /\ Fits(SeqMin(call.a.starts.vals) - call.slack, out.pos_t)
        /\ Fits(SeqMax(call.a.ends.vals) + call.slack, out.pos_t)

\* C6: every returned index is the index the kernel produced and lies inside its
\* own batch.
C6_IndicesUnchanged ==
    (Returned /\ Public /\ out.kernel) =>
        \A r \in 1..LenOf(out.ret[1]) :
            /\ out.ret[1].vals[r] = out.raw[1].vals[r]
            /\ out.ret[2].vals[r] = out.raw[2].vals[r]
            /\ InRange(out.ret[1].vals[r], call.a.starts)
            /\ InRange(out.ret[2].vals[r], call.b.starts)

\* C7: every distance nearest returns is non-negative and is the gap between the
\* two intervals the kernel paired (0 when they overlap).
C7_DistanceIsGap ==
    (Returned /\ entry = "nearest" /\ call.slack = 0) =>
        \A r \in 1..LenOf(out.ret[3]) :
            LET i == out.raw[1].vals[r]
                j == out.raw[2].vals[r]
            IN  /\ out.ret[3].vals[r] >= 0
                /\ out.ret[3].vals[r] =
                       Gap(At(call.a.starts, i), At(call.a.ends, i),
                           At(call.b.starts, j), At(call.b.ends, j))

\* C8: group arrays of dtype int8, int16 or int32 are accepted: the call does not
\* raise TypeError.
C8_SignedGroupsAccepted ==
    (Done /\ Public /\ call.a.groups.dtype \in {"i8", "i16", "i32"}
          /\ call.b.groups.dtype \in {"i8", "i16", "i32"}) =>
        out.raised # "TypeError"

\* C9: whenever _dispatch_binary reaches the kernel, the six arrays it hands over
\* hold the values of the caller's arrays.
C9_KernelArgsUnchanged ==
    (Done /\ Dispatched /\ out.kernel) =>
        /\ out.kargs[1].vals = call.a.groups.vals
        /\ out.kargs[2].vals = call.a.starts.vals
        /\ out.kargs[3].vals = call.a.ends.vals
        /\ out.kargs[4].vals = call.b.groups.vals
        /\ out.kargs[5].vals = call.b.starts.vals
        /\ out.kargs[6].vals = call.b.ends.vals

\* the roles cast_kernel_outputs ran with, when they are the declared ones
DeclaredRoles ==
    IF entry = "cast_kernel_outputs" THEN castIn.roles
    ELSE IF entry = "overlaps" THEN RETURN_SIGNATURES["chromsweep_numpy"]
    ELSE IF entry = "nearest" THEN RETURN_SIGNATURES["nearest_numpy"]
    ELSE RETURN_SIGNATURES[call.prefix]

RanCast ==
    /\ Done
    /\ \/ Dispatched /\ out.kernel
       \/ entry = "cast_kernel_outputs" /\ castIn.roles = RETURN_SIGNATURES[castIn.prefix]

\* C10: cast_kernel_outputs returns as many arrays as RETURN_SIGNATURES declares
\* (2 for overlaps, 3 for nearest), in the kernel's order, each as long as the
\* kernel's array and element for element its conversion; when the kernel returned
\* another number of arrays it raises ValueError and returns nothing.
C10_DeclaredArity ==
    RanCast =>
        IF Len(out.raw) = Len(DeclaredRoles)
        THEN /\ out.raised = ""
             /\ Len(out.ret) = Len(DeclaredRoles)
             /\ entry = "overlaps" => Len(out.ret) = 2
             /\ entry = "nearest" => Len(out.ret) = 3
             /\ \A k \in 1..Len(out.ret) :
                    /\ LenOf(out.ret[k]) = LenOf(out.raw[k])
                    /\ \A i \in 1..LenOf(out.ret[k]) :
                           out.ret[k].vals[i] = Wrap(out.raw[k].vals[i], out.ret[k].dtype)
        ELSE out.raised = "ValueError" /\ out.ret = <<>>

\* cast_kernel_outputs cast three non-empty arrays of a nearest kernel
C10_Witness ==
    /\ Done
    /\ entry = "cast_kernel_outputs"
    /\ castIn.prefix = "nearest_numpy"
    /\ castIn.roles = RETURN_SIGNATURES["nearest_numpy"]
    /\ out.raised = ""
    /\ Len(out.ret) = 3
    /\ LenOf(out.ret[1]) = 2
    /\ out.ret[1].dtype # out.raw[1].dtype
    /\ out.ret[3].dtype # out.raw[3].dtype

\* the pending call repeats the first call of the run
RepeatsFirst == first.set /\ first.entry = entry /\ first.call = call

====
